---- MODULE Spec2Model ----
(***************************************************************************)
(* Model of the board engine of src/chess_game.py: ChessPiece, ChessBoard  *)
(* (_setup_board, is_valid_move, move_piece).  Piece instances are heap    *)
(* objects; the model names them by the order in which _setup_board        *)
(* constructs them (1..32) and keeps their attributes in `pieces`.  A grid *)
(* cell and a move record hold a reference (the identity) or None.         *)
(***************************************************************************)
EXTENDS Integers, Sequences, FiniteSets, TLC

\* ------------------------------------------------------------------ bounds
\* cap on the number of successful moves explored by Spec
MaxMoves == 3
\* cap on the number of successful moves explored by SpecSweep (its repertoire
\* of calls allows at most 32)
MaxSweep == 33
\* cap on the number of successful moves explored by SpecRaw
MaxRawMoves == 2
\* cap on the number of successful moves explored by SpecQuery
MaxQueryMoves == 1
\* cap on the number of successful moves explored by SpecApp
MaxAppMoves == 3

\* ------------------------------------------------------- enums, constants
WHITE == "white"
BLACK == "black"
Color == {WHITE, BLACK}

PAWN == "pawn"
ROOK == "rook"
KNIGHT == "knight"
BISHOP == "bishop"
QUEEN == "queen"
KING == "king"
PieceType == {PAWN, ROOK, KNIGHT, BISHOP, QUEEN, KING}

\* ChessBoard(size=8)
size == 8
\* the empty cell / the absent captured piece
None == 0

\* the four possible outcomes of a call, and "no call yet"
RetTrue == "True"
RetFalse == "False"
RetIndexError == "IndexError"
NoCall == "none"

\* ------------------------------------------------------------- ChessPiece
\* ChessPiece.__init__: has_moved starts False
ChessPiece(piece_type, color, row, col) ==
  [type |-> piece_type, color |-> color, row |-> row, col |-> col,
   has_moved |-> FALSE]

\* ------------------------------------------------------------ _setup_board
\* variant of BackRank with Queen and King exchanged
BackRankSwapped ==
  <<ROOK, KNIGHT, BISHOP, KING, QUEEN, BISHOP, KNIGHT, ROOK>>

\* column order of the eight back-rank constructions (columns 0..7)
BackRank ==
  <<ROOK, KNIGHT, BISHOP, QUEEN, KING, BISHOP, KNIGHT, ROOK>>

\* The 32 constructions of _setup_board in program order: white back rank
\* (row 7), white pawns (row 6), black back rank (row 0), black pawns (row 1).
SetupPieces ==
  [c \in 1..8 |-> ChessPiece(BackRank[c], WHITE, 7, c - 1)]
  \o [c \in 1..size |-> ChessPiece(PAWN, WHITE, 6, c - 1)]
  \o [c \in 1..8 |-> ChessPiece(BackRank[c], BLACK, 0, c - 1)]
  \o [c \in 1..size |-> ChessPiece(PAWN, BLACK, 1, c - 1)]

PieceIds == 1..Len(SetupPieces)

\* the grid after _setup_board: cell (r,c) refers to the piece constructed for
\* it, every other cell is None
SetupBoard ==
  [r \in 0..(size - 1) |->
    [c \in 0..(size - 1) |->
      IF \E p \in PieceIds : SetupPieces[p].row = r /\ SetupPieces[p].col = c
      THEN CHOOSE p \in PieceIds :
             SetupPieces[p].row = r /\ SetupPieces[p].col = c
      ELSE None]]

\* ChessBoard.__init__
NewBoard ==
  [board |-> SetupBoard,
   pieces |-> SetupPieces,
   current_turn |-> WHITE,
   move_history |-> <<>>]

\* ------------------------------------------------------------ list indexing
\* Python list indexing on a list of length `size`: -size..size-1 are valid,
\* a negative index counts from the end; anything else raises IndexError.
IndexOK(i) == i >= 0 - size /\ i < size
Idx(i) == i % size

\* ------------------------------------------------------------ is_valid_move
\* variant of is_valid_move with the colour comparison inverted
is_valid_move_inverted(b, ps, piece, new_row, new_col) ==
  IF new_row < 0 \/ new_row >= size \/ new_col < 0 \/ new_col >= size
  THEN FALSE
  ELSE LET dest_piece == b[new_row][new_col]
       IN  IF dest_piece # None /\ ps[dest_piece].color # ps[piece].color
           THEN FALSE
           ELSE TRUE

\* variant of is_valid_move that rejects every occupied target
is_valid_move_occupied(b, ps, piece, new_row, new_col) ==
  IF new_row < 0 \/ new_row >= size \/ new_col < 0 \/ new_col >= size
  THEN FALSE
  ELSE LET dest_piece == b[new_row][new_col]
       IN  IF dest_piece # None
           THEN FALSE
           ELSE TRUE

is_valid_move(b, ps, piece, new_row, new_col) ==
  IF new_row < 0 \/ new_row >= size \/ new_col < 0 \/ new_col >= size
  THEN FALSE
  ELSE LET dest_piece == b[new_row][new_col]
       IN  IF dest_piece # None /\ ps[dest_piece].color = ps[piece].color
           THEN FALSE
           ELSE TRUE

\* --------------------------------------------------------------- move_piece
\* The state of a ChessBoard is a record st with fields board, pieces,
\* current_turn, move_history.
Opposite(c) == IF c = WHITE THEN BLACK ELSE WHITE

\* variant of not_turn with the comparison inverted
not_turn_inverted(st, piece) == st.pieces[piece].color = st.current_turn

\* the test `piece.color != self.current_turn`
not_turn(st, piece) == st.pieces[piece].color # st.current_turn

\* variant of apply_move that does not clear the source cell
apply_move_keep_source(st, piece, from_row, from_col, to_row, to_col) ==
  LET capture == st.board[to_row][to_col]
      move_record == [piece |-> piece,
                      from |-> <<from_row, from_col>>,
                      to |-> <<to_row, to_col>>,
                      captured |-> capture]
  IN [board |-> [st.board EXCEPT ![to_row][to_col] = piece],
      pieces |-> [st.pieces EXCEPT ![piece].row = to_row,
                                   ![piece].col = to_col,
                                   ![piece].has_moved = TRUE],
      current_turn |-> Opposite(st.current_turn),
      move_history |-> Append(st.move_history, move_record)]

\* variant of apply_move that reads `capture` after placing the piece
apply_move_late_capture(st, piece, from_row, from_col, to_row, to_col) ==
  LET board1 == [st.board EXCEPT ![to_row][to_col] = piece]
      board2 == [board1 EXCEPT ![Idx(from_row)][Idx(from_col)] = None]
      capture == board1[to_row][to_col]
      move_record == [piece |-> piece,
                      from |-> <<from_row, from_col>>,
                      to |-> <<to_row, to_col>>,
                      captured |-> capture]
  IN [board |-> board2,
      pieces |-> [st.pieces EXCEPT ![piece].row = to_row,
                                   ![piece].col = to_col,
                                   ![piece].has_moved = TRUE],
      current_turn |-> Opposite(st.current_turn),
      move_history |-> Append(st.move_history, move_record)]

\* variant of apply_move that does not flip the turn
apply_move_no_flip(st, piece, from_row, from_col, to_row, to_col) ==
  LET capture == st.board[to_row][to_col]
      move_record == [piece |-> piece,
                      from |-> <<from_row, from_col>>,
                      to |-> <<to_row, to_col>>,
                      captured |-> capture]
      board1 == [st.board EXCEPT ![to_row][to_col] = piece]
  IN [board |-> [board1 EXCEPT ![Idx(from_row)][Idx(from_col)] = None],
      pieces |-> [st.pieces EXCEPT ![piece].row = to_row,
                                   ![piece].col = to_col,
                                   ![piece].has_moved = TRUE],
      current_turn |-> st.current_turn,
      move_history |-> Append(st.move_history, move_record)]

\* variant of apply_move that stores row and col exchanged
apply_move_swapped_coords(st, piece, from_row, from_col, to_row, to_col) ==
  LET capture == st.board[to_row][to_col]
      move_record == [piece |-> piece,
                      from |-> <<from_row, from_col>>,
                      to |-> <<to_row, to_col>>,
                      captured |-> capture]
      board1 == [st.board EXCEPT ![to_row][to_col] = piece]
  IN [board |-> [board1 EXCEPT ![Idx(from_row)][Idx(from_col)] = None],
      pieces |-> [st.pieces EXCEPT ![piece].row = to_col,
                                   ![piece].col = to_row,
                                   ![piece].has_moved = TRUE],
      current_turn |-> Opposite(st.current_turn),
      move_history |-> Append(st.move_history, move_record)]

\* variant of apply_move that does not update the piece's row and col
apply_move_stale_coords(st, piece, from_row, from_col, to_row, to_col) ==
  LET capture == st.board[to_row][to_col]
      move_record == [piece |-> piece,
                      from |-> <<from_row, from_col>>,
                      to |-> <<to_row, to_col>>,
                      captured |-> capture]
      board1 == [st.board EXCEPT ![to_row][to_col] = piece]
  IN [board |-> [board1 EXCEPT ![Idx(from_row)][Idx(from_col)] = None],
      pieces |-> [st.pieces EXCEPT ![piece].has_moved = TRUE],
      current_turn |-> Opposite(st.current_turn),
      move_history |-> Append(st.move_history, move_record)]

\* variant of apply_move that inserts the record at the front of the history
apply_move_prepend(st, piece, from_row, from_col, to_row, to_col) ==
  LET capture == st.board[to_row][to_col]
      move_record == [piece |-> piece,
                      from |-> <<from_row, from_col>>,
                      to |-> <<to_row, to_col>>,
                      captured |-> capture]
      board1 == [st.board EXCEPT ![to_row][to_col] = piece]
  IN [board |-> [board1 EXCEPT ![Idx(from_row)][Idx(from_col)] = None],
      pieces |-> [st.pieces EXCEPT ![piece].row = to_row,
                                   ![piece].col = to_col,
                                   ![piece].has_moved = TRUE],
      current_turn |-> Opposite(st.current_turn),
      move_history |-> <<move_record>> \o st.move_history]

\* variant of apply_move that also takes the captured piece off the board by
\* resetting its row and col
apply_move_reset_captured(st, piece, from_row, from_col, to_row, to_col) ==
  LET capture == st.board[to_row][to_col]
      move_record == [piece |-> piece,
                      from |-> <<from_row, from_col>>,
                      to |-> <<to_row, to_col>>,
                      captured |-> capture]
      board1 == [st.board EXCEPT ![to_row][to_col] = piece]
      pieces1 == IF capture = None
                 THEN [st.pieces EXCEPT ![piece].row = to_row,
                                        ![piece].col = to_col,
                                        ![piece].has_moved = TRUE]
                 ELSE [st.pieces EXCEPT ![piece].row = to_row,
                                        ![piece].col = to_col,
                                        ![piece].has_moved = TRUE,
                                        ![capture].row = 0 - 1,
                                        ![capture].col = 0 - 1]
  IN [board |-> [board1 EXCEPT ![Idx(from_row)][Idx(from_col)] = None],
      pieces |-> pieces1,
      current_turn |-> Opposite(st.current_turn),
      move_history |-> Append(st.move_history, move_record)]

\* variant of apply_move that builds the record from the destination only
apply_move_from_is_to(st, piece, from_row, from_col, to_row, to_col) ==
  LET capture == st.board[to_row][to_col]
      move_record == [piece |-> piece,
                      from |-> <<to_row, to_col>>,
                      to |-> <<to_row, to_col>>,
                      captured |-> capture]
      board1 == [st.board EXCEPT ![to_row][to_col] = piece]
      pieces1 == [st.pieces EXCEPT ![piece].row = to_row,
                                ![piece].col = to_col,
                                ![piece].has_moved = TRUE]
  IN [board |-> [board1 EXCEPT ![Idx(from_row)][Idx(from_col)] = None],
      pieces |-> pieces1,
      current_turn |-> Opposite(st.current_turn),
      move_history |-> Append(st.move_history, move_record)]

\* variant of apply_move that does not set has_moved
apply_move_no_flag(st, piece, from_row, from_col, to_row, to_col) ==
  LET capture == st.board[to_row][to_col]
      move_record == [piece |-> piece,
                      from |-> <<from_row, from_col>>,
                      to |-> <<to_row, to_col>>,
                      captured |-> capture]
      board1 == [st.board EXCEPT ![to_row][to_col] = piece]
      pieces1 == [st.pieces EXCEPT ![piece].row = to_row,
                                ![piece].col = to_col]
  IN [board |-> [board1 EXCEPT ![Idx(from_row)][Idx(from_col)] = None],
      pieces |-> pieces1,
      current_turn |-> Opposite(st.current_turn),
      move_history |-> Append(st.move_history, move_record)]

\* the success path of move_piece (after the three early returns): the state
\* after recording the move, placing the piece, clearing the source, updating
\* the piece and flipping the turn
apply_move(st, piece, from_row, from_col, to_row, to_col) ==
  LET capture == st.board[to_row][to_col]
      move_record == [piece |-> piece,
                      from |-> <<from_row, from_col>>,
                      to |-> <<to_row, to_col>>,
                      captured |-> capture]
      board1 == [st.board EXCEPT ![to_row][to_col] = piece]
  IN [board |-> [board1 EXCEPT ![Idx(from_row)][Idx(from_col)] = None],
      pieces |-> [st.pieces EXCEPT ![piece].row = to_row,
                                   ![piece].col = to_col,
                                   ![piece].has_moved = TRUE],
      current_turn |-> Opposite(st.current_turn),
      move_history |-> Append(st.move_history, move_record)]

\* variant of move_piece that flips the turn when is_valid_move rejects
move_piece_flip_on_reject(st, from_row, from_col, to_row, to_col) ==
  IF ~(IndexOK(from_row) /\ IndexOK(from_col))
  THEN [ret |-> RetIndexError, st |-> st]
  ELSE
  LET piece == st.board[Idx(from_row)][Idx(from_col)]
  IN
  IF piece = None THEN [ret |-> RetFalse, st |-> st]
  ELSE IF not_turn(st, piece) THEN [ret |-> RetFalse, st |-> st]
  ELSE IF ~is_valid_move(st.board, st.pieces, piece, to_row, to_col)
  THEN [ret |-> RetFalse,
        st |-> [st EXCEPT !.current_turn = Opposite(st.current_turn)]]
  ELSE [ret |-> RetTrue,
        st |-> apply_move(st, piece, from_row, from_col, to_row, to_col)]

\* move_piece returns [ret, st]: the returned value (or the exception raised
\* by indexing the grid with the source) and the state after the call.
move_piece(st, from_row, from_col, to_row, to_col) ==
  IF ~(IndexOK(from_row) /\ IndexOK(from_col))
  THEN [ret |-> RetIndexError, st |-> st]
  ELSE
  LET piece == st.board[Idx(from_row)][Idx(from_col)]
  IN
  IF piece = None THEN [ret |-> RetFalse, st |-> st]
  ELSE IF not_turn(st, piece) THEN [ret |-> RetFalse, st |-> st]
  ELSE IF ~is_valid_move(st.board, st.pieces, piece, to_row, to_col)
  THEN [ret |-> RetFalse, st |-> st]
  ELSE [ret |-> RetTrue,
        st |-> apply_move(st, piece, from_row, from_col, to_row, to_col)]

\* ----------------------------------------------------------------- ChessApp
\* ChessApp.__init__: BOARD_SIZE and SQUARE_SIZE (pixels per square)
BOARD_SIZE == 8
SQUARE_SIZE == 80

\* _draw_pieces: drawn_pieces is cleared and gets one key (row, col) for every
\* cell of the grid that holds a piece (the canvas item ids are left out)
draw_pieces(b) ==
  {<<row, col>> \in (0..(BOARD_SIZE - 1)) \X (0..(BOARD_SIZE - 1)) :
     b[row][col] # None}

\* variant of turn_text with the two texts exchanged
turn_text_exchanged(turn) ==
  IF turn = WHITE THEN "Black's Turn" ELSE "White's Turn"

\* the text on_square_click gives the status label after a successful move
turn_text(turn) ==
  IF turn = WHITE THEN "White's Turn" ELSE "Black's Turn"

\* ChessApp.__init__ : the board, the drawn pieces, no selection, the label
NewApp ==
  [st |-> NewBoard,
   drawn_pieces |-> draw_pieces(NewBoard.board),
   selected_piece |-> None,
   status_label |-> "White's Turn"]

\* variant of on_square_click that clears the selection only after a
\* successful move
on_square_click_keep_selection(app, x, y) ==
  LET col == x \div SQUARE_SIZE
      row == y \div SQUARE_SIZE
      idle == [app |-> app, called |-> FALSE, args |-> <<>>, ret |-> NoCall]
  IN
  IF 0 <= row /\ row < BOARD_SIZE /\ 0 <= col /\ col < BOARD_SIZE
  THEN
    LET clicked_piece == app.st.board[row][col]
    IN
    IF app.selected_piece # None
    THEN
      LET args == <<app.st.pieces[app.selected_piece].row,
                    app.st.pieces[app.selected_piece].col, row, col>>
          r == move_piece(app.st, args[1], args[2], args[3], args[4])
      IN
      IF r.ret = RetIndexError
      THEN [app |-> app, called |-> TRUE, args |-> args, ret |-> r.ret]
      ELSE IF r.ret = RetTrue
      THEN [app |-> [st |-> r.st,
                     drawn_pieces |-> draw_pieces(r.st.board),
                     selected_piece |-> None,
                     status_label |-> turn_text(r.st.current_turn)],
            called |-> TRUE, args |-> args, ret |-> r.ret]
      ELSE [app |-> [app EXCEPT !.st = r.st],
            called |-> TRUE, args |-> args, ret |-> r.ret]
    ELSE IF clicked_piece # None
    THEN IF app.st.pieces[clicked_piece].color = app.st.current_turn
         THEN [idle EXCEPT !.app.selected_piece = clicked_piece]
         ELSE idle
    ELSE idle
  ELSE idle

\* on_square_click(event) with event.x = x, event.y = y.  Returns the state of
\* the app after the handler, whether it called move_piece, and with which
\* arguments and result.  An exception raised by move_piece ends the handler.
on_square_click(app, x, y) ==
  LET col == x \div SQUARE_SIZE
      row == y \div SQUARE_SIZE
      idle == [app |-> app, called |-> FALSE, args |-> <<>>, ret |-> NoCall]
  IN
  IF 0 <= row /\ row < BOARD_SIZE /\ 0 <= col /\ col < BOARD_SIZE
  THEN
    LET clicked_piece == app.st.board[row][col]
    IN
    IF app.selected_piece # None
    THEN
      LET args == <<app.st.pieces[app.selected_piece].row,
                    app.st.pieces[app.selected_piece].col, row, col>>
          r == move_piece(app.st, args[1], args[2], args[3], args[4])
      IN
      IF r.ret = RetIndexError
      THEN [app |-> app, called |-> TRUE, args |-> args, ret |-> r.ret]
      ELSE IF r.ret = RetTrue
      THEN [app |-> [st |-> r.st,
                     drawn_pieces |-> draw_pieces(r.st.board),
                     selected_piece |-> None,
                     status_label |-> turn_text(r.st.current_turn)],
            called |-> TRUE, args |-> args, ret |-> r.ret]
      ELSE [app |-> [app EXCEPT !.st = r.st, !.selected_piece = None],
            called |-> TRUE, args |-> args, ret |-> r.ret]
    ELSE IF clicked_piece # None
    THEN IF app.st.pieces[clicked_piece].color = app.st.current_turn
         THEN [idle EXCEPT !.app.selected_piece = clicked_piece]
         ELSE idle
    ELSE idle
  ELSE idle

\* ------------------------------------------------------------------- state
VARIABLES
  board,         \* ChessBoard.board
  pieces,        \* attributes of the ChessPiece instances
  current_turn,  \* ChessBoard.current_turn
  move_history,  \* ChessBoard.move_history
  call,          \* arguments of the latest move_piece call (<<>> before any)
  ret,           \* what the latest call returned
  true_calls,    \* number of calls so far that returned True
  op,            \* the latest operation run by the caller (OpNone before any)
  query,         \* arguments of the latest is_valid_move call (<<>> before any)
  answer,        \* what the latest is_valid_move call returned
  selected_piece,  \* ChessApp.selected_piece
  status_label,    \* text of ChessApp.status_label
  drawn_pieces,    \* keys of ChessApp.drawn_pieces (the squares with a drawn item)
  event            \* <<x, y>> of the latest click event (<<>> before any)

boardvars == <<board, pieces, current_turn, move_history>>
callvars == <<call, ret, true_calls>>
queryvars == <<query, answer>>
appvars == <<selected_piece, status_label, drawn_pieces, event>>
vars == <<boardvars, callvars, op, queryvars, appvars>>

\* names of the operations
OpNone == "none"
OpMove == "move_piece"
OpValid == "is_valid_move"
OpClick == "on_square_click"

State == [board |-> board, pieces |-> pieces, current_turn |-> current_turn,
          move_history |-> move_history]

Init ==
  /\ board = NewBoard.board
  /\ pieces = NewBoard.pieces
  /\ current_turn = NewBoard.current_turn
  /\ move_history = NewBoard.move_history
  /\ call = <<>>
  /\ ret = NoCall
  /\ true_calls = 0
  /\ op = OpNone
  /\ query = <<>>
  /\ answer = NoCall
  /\ selected_piece = NewApp.selected_piece
  /\ status_label = NewApp.status_label
  /\ drawn_pieces = NewApp.drawn_pieces
  /\ event = <<>>

\* one call move_piece(c[1], c[2], c[3], c[4]) by the caller
MovePiece(c) ==
  LET r == move_piece(State, c[1], c[2], c[3], c[4])
  IN /\ board' = r.st.board
     /\ pieces' = r.st.pieces
     /\ current_turn' = r.st.current_turn
     /\ move_history' = r.st.move_history
     /\ call' = c
     /\ ret' = r.ret
     /\ true_calls' = IF r.ret = RetTrue THEN true_calls + 1 ELSE true_calls

\* ------------------------------------------------------------------ inputs
\* Spec: calls whose source is one of these squares of the grid and whose
\* destination is one of them or one of four positions off the grid.
\* (0,1) black knight, (0,4) black king, (6,4) white pawn, (7,3) white queen,
\* (4,4) and (5,3) empty at the start.
Squares ==
  {<<0, 1>>, <<0, 4>>, <<4, 4>>, <<5, 3>>, <<6, 4>>, <<7, 3>>}
OffBoard == {<<0 - 1, 4>>, <<size, 4>>, <<4, 0 - 1>>, <<4, size>>}
Calls ==
  {<<s[1], s[2], d[1], d[2]>> : s \in Squares, d \in Squares \cup OffBoard}

\* a call of move_piece made directly on the board
CallMovePiece(c) ==
  /\ MovePiece(c)
  /\ op' = OpMove
  /\ UNCHANGED <<queryvars, appvars>>

Next == \E c \in Calls : Len(move_history) < MaxMoves /\ CallMovePiece(c)

Spec == Init /\ [][Next]_vars

\* SpecSweep: a fixed repertoire of calls.  The white rook of (7,0) walks
\* (0,0), (0,1) .. (0,7), (1,0) .. (1,6) and then to (1,7) or (2,7); the black
\* pawns of (1,6) and (1,7) step between (1,7) and (2,7).
SweepCalls ==
  {<<7, 0, 0, 0>>, <<0, 7, 1, 0>>}
  \cup {<<0, k - 1, 0, k>> : k \in 1..7}
  \cup {<<1, k - 1, 1, k>> : k \in 1..6}
  \cup {<<1, 6, 2, 7>>, <<1, 6, 1, 7>>, <<1, 7, 2, 7>>, <<2, 7, 1, 7>>}

NextSweep ==
  \E c \in SweepCalls : Len(move_history) < MaxSweep /\ CallMovePiece(c)

SpecSweep == Init /\ [][NextSweep]_vars

\* SpecRaw: calls whose source may lie off the grid.  (8,4), (6,8) and (-9,4)
\* are outside the index range of the lists; (-1,3) and (6,-4) are negative
\* indices that reach (7,3) and (6,4).
RawSources ==
  {<<size, 4>>, <<6, size>>, <<0 - 9, 4>>, <<0 - 1, 3>>, <<6, 0 - 4>>,
   <<0, 4>>, <<4, 4>>}
RawTargets == {<<4, 4>>, <<0, 4>>, <<7, 3>>, <<5, 3>>, <<size, 4>>}
RawCalls ==
  {<<s[1], s[2], d[1], d[2]>> : s \in RawSources, d \in RawTargets}

NextRaw ==
  \E c \in RawCalls : Len(move_history) < MaxRawMoves /\ CallMovePiece(c)

SpecRaw == Init /\ [][NextRaw]_vars

\* SpecQuery: calls of move_piece as in Spec, and calls of is_valid_move for
\* the pieces that start on Squares (on the grid or captured by then) and the
\* targets of Calls.
QueryPieces == {SetupBoard[s[1]][s[2]] : s \in Squares} \ {None}
QueryTargets == Squares \cup OffBoard

\* one call is_valid_move(piece, t[1], t[2]); the method assigns nothing
CallIsValidMove(piece, t) ==
  /\ query' = <<piece, t[1], t[2]>>
  /\ answer' = (IF is_valid_move(board, pieces, piece, t[1], t[2])
                THEN RetTrue ELSE RetFalse)
  /\ op' = OpValid
  /\ UNCHANGED <<boardvars, callvars, appvars>>

NextQuery ==
  \/ \E c \in Calls : Len(move_history) < MaxQueryMoves /\ CallMovePiece(c)
  \/ \E piece \in QueryPieces, t \in QueryTargets : CallIsValidMove(piece, t)

SpecQuery == Init /\ [][NextQuery]_vars

\* SpecApp: the board is driven by click events only.  The clicks fall on the
\* last pixel column and first pixel row of the squares of Squares, or just
\* outside the 640 x 640 canvas.
App == [st |-> State,
        drawn_pieces |-> drawn_pieces,
        selected_piece |-> selected_piece,
        status_label |-> status_label]

ClickPoints ==
  {<<sq[2] * SQUARE_SIZE + (SQUARE_SIZE - 1), sq[1] * SQUARE_SIZE>> :
     sq \in Squares}
  \cup {<<0 - 1, 40>>, <<BOARD_SIZE * SQUARE_SIZE, 40>>,
        <<40, 0 - 1>>, <<40, BOARD_SIZE * SQUARE_SIZE>>}

\* one click event at pixel pt = <<x, y>>
OnSquareClick(pt) ==
  LET r == on_square_click(App, pt[1], pt[2])
  IN /\ board' = r.app.st.board
     /\ pieces' = r.app.st.pieces
     /\ current_turn' = r.app.st.current_turn
     /\ move_history' = r.app.st.move_history
     /\ drawn_pieces' = r.app.drawn_pieces
     /\ selected_piece' = r.app.selected_piece
     /\ status_label' = r.app.status_label
     /\ call' = (IF r.called THEN r.args ELSE call)
     /\ ret' = (IF r.called THEN r.ret ELSE ret)
     /\ true_calls' = (IF r.called /\ r.ret = RetTrue
                       THEN true_calls + 1 ELSE true_calls)
     /\ event' = pt
     /\ op' = OpClick
     /\ UNCHANGED queryvars

NextApp ==
  \E pt \in ClickPoints : Len(move_history) < MaxAppMoves /\ OnSquareClick(pt)

SpecApp == Init /\ [][NextApp]_vars

\* ================================================================== claims
Rows == 0..(size - 1)
Cols == 0..(size - 1)
OnGrid == {board[r][c] : r \in Rows, c \in Cols} \ {None}
LastRecord == move_history[Len(move_history)]
SourceInRange(c) == c[1] \in Rows /\ c[2] \in Cols

\* the four conditions of C1, read in the state before the call
SuccessConditions(c) ==
  /\ board[c[1]][c[2]] # None
  /\ pieces[board[c[1]][c[2]]].color = current_turn
  /\ c[3] \in Rows /\ c[4] \in Cols
  /\ \/ board[c[3]][c[4]] = None
     \/ pieces[board[c[3]][c[4]]].color # pieces[board[c[1]][c[2]]].color

\* C1: a call with an in-range source returns True exactly when the source
\* cell is non-empty, its piece has the colour of current_turn, the
\* destination is on the grid and the destination holds no piece of the
\* mover's colour; otherwise it returns False.  Kind and path play no part.
C1_SucceedsIff ==
  [][SourceInRange(call') =>
       /\ ret' \in {RetTrue, RetFalse}
       /\ (ret' = RetTrue) <=> SuccessConditions(call')]_vars

\* a diagonal pawn step, legal for this engine, has returned True
C1_Witness ==
  /\ ret = RetTrue
  /\ call = <<6, 4, 5, 3>>
  /\ pieces[board[5][3]].type = PAWN

\* C2: a call that returns False leaves grid, pieces, turn and history as
\* they were.
C2_FailureChangesNothing ==
  [][ret' = RetFalse =>
       UNCHANGED <<board, pieces, current_turn, move_history>>]_vars

\* after at least one move, a call by the side to move was rejected for its
\* destination (off the grid or held by the mover's colour)
C2_Witness ==
  /\ ret = RetFalse
  /\ move_history # <<>>
  /\ board[call[1]][call[2]] # None
  /\ pieces[board[call[1]][call[2]]].color = current_turn

\* C3: after a call that returns True the turn is the opposite one, the
\* source cell is empty, the destination cell holds the piece that was in the
\* source cell, and that piece has the destination as stored (row, col) and
\* has_moved true.
C3_SuccessEffect ==
  [][ret' = RetTrue =>
       LET mover == board[call'[1]][call'[2]]
       IN /\ mover # None
          /\ current_turn' = Opposite(current_turn)
          /\ current_turn' # current_turn
          /\ board'[call'[1]][call'[2]] = None
          /\ board'[call'[3]][call'[4]] = mover
          /\ pieces'[mover].row = call'[3]
          /\ pieces'[mover].col = call'[4]
          /\ pieces'[mover].has_moved = TRUE]_vars

\* the white pawn of (6,4) went two squares forward as the first move
C3_Witness ==
  /\ ret = RetTrue
  /\ call = <<6, 4, 4, 4>>
  /\ Len(move_history) = 1
  /\ current_turn = BLACK
  /\ board[6][4] = None
  /\ board[4][4] # None
  /\ pieces[board[4][4]].type = PAWN
  /\ pieces[board[4][4]].color = WHITE
  /\ pieces[board[4][4]].has_moved

\* C4: a successful call onto a cell holding a piece of the other colour
\* leaves that piece in no cell and stores it as `captured` of the record this
\* call appended; onto an empty cell the record's `captured` is None.  The
\* record's from and to are the call's source and destination and its piece is
\* the mover.
C4_CaptureRecorded ==
  [][ret' = RetTrue =>
       LET mover == board[call'[1]][call'[2]]
           target == board[call'[3]][call'[4]]
           rec == move_history'[Len(move_history')]
       IN /\ Len(move_history') = Len(move_history) + 1
          /\ rec.piece = mover
          /\ rec.from = <<call'[1], call'[2]>>
          /\ rec.to = <<call'[3], call'[4]>>
          /\ rec.captured = target
          /\ target # None =>
               /\ pieces[target].color # pieces[mover].color
               /\ \A r \in Rows, c \in Cols : board'[r][c] # target]_vars

\* the latest move captured a King
C4_Witness ==
  /\ ret = RetTrue
  /\ LastRecord.captured # None
  /\ pieces[LastRecord.captured].type = KING
  /\ LastRecord.captured \notin OnGrid

TurnParity ==
  /\ current_turn = WHITE <=> Len(move_history) % 2 = 0
  /\ \A i \in 1..Len(move_history) :
       pieces[move_history[i].piece].color =
         (IF (i - 1) % 2 = 0 THEN WHITE ELSE BLACK)
  /\ \A i \in 1..(Len(move_history) - 1) :
       pieces[move_history[i].piece].color #
         pieces[move_history[i + 1].piece].color

TurnStep ==
  /\ current_turn' # current_turn => ret' = RetTrue
  /\ ret' = RetTrue => current_turn' = Opposite(current_turn)

\* C5: WHITE moves first, current_turn changes only in a call that returns
\* True and every such call flips it; so current_turn is WHITE exactly when
\* the history has even length, record i (0-based) was moved by WHITE for even
\* i and BLACK for odd i, and no colour moves twice in a row.
C5_TurnAlternation ==
  /\ current_turn = WHITE
  /\ []TurnParity
  /\ [][TurnStep]_vars

\* three moves were made: white, black, white
C5_Witness ==
  /\ Len(move_history) = 3
  /\ current_turn = BLACK
  /\ pieces[move_history[2].piece].color = BLACK

\* C6: every piece on the grid has the coordinates of its cell as stored
\* (row, col), and no piece is held by two cells.
C6_StoredCoordsMatchGrid ==
  \A r \in Rows, c \in Cols :
    board[r][c] # None =>
      /\ pieces[board[r][c]].row = r
      /\ pieces[board[r][c]].col = c
      /\ \A r2 \in Rows, c2 \in Cols :
           board[r2][c2] = board[r][c] => (r2 = r /\ c2 = c)

\* a piece stands on a square that is not its initial one, after a capture
C6_Witness ==
  /\ \E i \in 1..Len(move_history) : move_history[i].captured # None
  /\ \E p \in OnGrid :
       /\ pieces[p].has_moved
       /\ board[pieces[p].row][pieces[p].col] = p
       /\ <<pieces[p].row, pieces[p].col>> #
            <<SetupPieces[p].row, SetupPieces[p].col>>

\* stored coordinates of a piece
Coords(p) == <<pieces[p].row, pieces[p].col>>
Captured ==
  {move_history[i].captured : i \in 1..Len(move_history)} \ {None}
\* every piece instance the board still references: through the grid or
\* through a move record
Referenced ==
  OnGrid \cup Captured
    \cup {move_history[i].piece : i \in 1..Len(move_history)}

\* C7 as stated: over all referenced pieces (captured ones included), a cell
\* is non-empty iff some piece has its coordinates stored, and exactly one
\* piece has them when the cell is occupied.
C7_AsStated ==
  \A r \in Rows, c \in Cols :
    /\ board[r][c] # None <=> \E p \in Referenced : Coords(p) = <<r, c>>
    /\ board[r][c] # None =>
         Cardinality({p \in Referenced : Coords(p) = <<r, c>>}) = 1

\* C7 (amended): over the pieces on the grid, a cell is non-empty iff some
\* piece has its coordinates stored, and exactly one piece on the grid has
\* them when the cell is occupied.
C7_OnGridPieces ==
  \A r \in Rows, c \in Cols :
    /\ board[r][c] # None <=> \E p \in OnGrid : Coords(p) = <<r, c>>
    /\ board[r][c] # None =>
         Cardinality({p \in OnGrid : Coords(p) = <<r, c>>}) = 1

\* a captured piece still stores the square it was captured on, and that
\* square is empty again because the capturing piece has moved on
C7_Witness ==
  \E p \in Captured :
    /\ p \notin OnGrid
    /\ board[pieces[p].row][pieces[p].col] = None

\* C8: a call that returns True makes the history the old history with one
\* record appended, any other call leaves it identical; no record is ever
\* removed, reordered or changed.  So the length of the history is the number
\* of calls that returned True.
C8_AppendOnly ==
  /\ [](Len(move_history) = true_calls)
  /\ [][(ret' = RetTrue =>
            /\ Len(move_history') = Len(move_history) + 1
            /\ SubSeq(move_history', 1, Len(move_history)) = move_history)
        /\ (ret' # RetTrue => move_history' = move_history)]_vars

\* two moves were made and the call after them was rejected
C8_Witness ==
  /\ Len(move_history) = 2
  /\ true_calls = 2
  /\ ret = RetFalse

CanonicalBackRank ==
  <<"rook", "knight", "bishop", "queen", "king", "bishop", "knight", "rook">>
Occupied == {<<r, c>> \in Rows \X Cols : board[r][c] # None}
OccupiedBy(col) ==
  {sq \in Occupied : pieces[board[sq[1]][sq[2]]].color = col}

\* C9: the board before any call holds 32 pieces, 16 WHITE and 16 BLACK:
\* black back rank on row 0, black pawns on row 1, white pawns on row 6, white
\* back rank on row 7, back ranks in the order Rook, Knight, Bishop, Queen,
\* King, Bishop, Knight, Rook, rows 2..5 empty, every piece unmoved and
\* storing its cell, WHITE to move and an empty history.
C9_FreshBoard ==
  call = <<>> =>
    /\ size = 8
    /\ Cardinality(Occupied) = 32
    /\ Cardinality(OnGrid) = 32
    /\ Cardinality(OccupiedBy(WHITE)) = 16
    /\ Cardinality(OccupiedBy(BLACK)) = 16
    /\ \A c \in Cols :
         /\ board[0][c] # None /\ board[1][c] # None
         /\ board[6][c] # None /\ board[7][c] # None
         /\ pieces[board[0][c]].color = BLACK
         /\ pieces[board[0][c]].type = CanonicalBackRank[c + 1]
         /\ pieces[board[1][c]].color = BLACK
         /\ pieces[board[1][c]].type = PAWN
         /\ pieces[board[6][c]].color = WHITE
         /\ pieces[board[6][c]].type = PAWN
         /\ pieces[board[7][c]].color = WHITE
         /\ pieces[board[7][c]].type = CanonicalBackRank[c + 1]
    /\ \A r \in 2..5, c \in Cols : board[r][c] = None
    /\ \A sq \in Occupied :
         /\ pieces[board[sq[1]][sq[2]]].has_moved = FALSE
         /\ Coords(board[sq[1]][sq[2]]) = sq
    /\ current_turn = WHITE
    /\ move_history = <<>>

\* the freshly constructed board, Queens on column 3 and Kings on column 4
C9_Witness ==
  /\ call = <<>>
  /\ ret = NoCall
  /\ pieces[board[7][3]].type = QUEEN /\ pieces[board[0][3]].type = QUEEN
  /\ pieces[board[7][4]].type = KING /\ pieces[board[0][4]].type = KING

\* source coordinates a caller may pass: the grid, the negative indices that
\* alias it, and one value beyond each end (these raise IndexError)
AnyIndex == (0 - size - 1)..size

\* destination coordinates a caller may pass: the grid and one value beyond
\* each end (is_valid_move rejects every negative destination, none aliases)
AnyTarget == (0 - 1)..size

\* some call would return True; aliasing sources count, and a call that
\* raises IndexError does not
CanMove ==
  \E fr \in AnyIndex, fc \in AnyIndex, tr \in AnyTarget, tc \in AnyTarget :
    move_piece(State, fr, fc, tr, tc).ret = RetTrue

\* C10 as stated: in every reachable state some call returns True.
C10_AsStated == CanMove

\* C10 (amended): in every reachable state some call returns True if and only
\* if the side to move has at least one piece on the grid; once the side to
\* move has none, no call returns True (each returns False or, for a source
\* outside -8..7, raises IndexError).
C10_CanMoveIffHasPiece ==
  CanMove <=> OccupiedBy(current_turn) # {}

\* the side to move is down to its last piece and can still move
C10_Witness ==
  /\ Cardinality(OccupiedBy(current_turn)) = 1
  /\ Len(move_history) > 0
  /\ CanMove

\* C11 as stated: whatever integers a call is given, it ends by returning
\* True or False and never by raising an exception.
C11_NeverRaises == ret \in {NoCall, RetTrue, RetFalse}

\* C12: is_valid_move changes no grid cell, no piece attribute, not the turn
\* and not the history, and it returns False exactly when the target is off
\* the grid or the target cell holds a piece of the colour of the given piece,
\* True otherwise.
C12_IsValidMovePure ==
  [][op' = OpValid =>
       LET piece == query'[1]
           row == query'[2]
           col == query'[3]
           rejected ==
             \/ row \notin Rows
             \/ col \notin Cols
             \/ /\ board[row][col] # None
                /\ pieces[board[row][col]].color = pieces[piece].color
       IN /\ UNCHANGED <<board, pieces, current_turn, move_history>>
          /\ answer' = (IF rejected THEN RetFalse ELSE RetTrue)]_vars

\* is_valid_move was asked about a captured piece and a cell holding a piece
\* of the other colour, and returned True
C12_Witness ==
  /\ op = OpValid
  /\ answer = RetTrue
  /\ query[1] \notin OnGrid
  /\ board[query[2]][query[3]] # None

\* C13: in a call that returns True only the source and the destination cell
\* change, only the moved piece changes (its row, col, has_moved; a captured
\* piece and every other piece keep all their attributes), the history grows
\* by exactly one record and the turn flips.
C13_SuccessFrame ==
  [][ret' = RetTrue =>
       LET src == <<call'[1], call'[2]>>
           dst == <<call'[3], call'[4]>>
           mover == board[src[1]][src[2]]
       IN /\ \A r \in Rows, c \in Cols :
               <<r, c>> \notin {src, dst} => board'[r][c] = board[r][c]
          /\ \A p \in PieceIds : p # mover => pieces'[p] = pieces[p]
          /\ pieces'[mover].type = pieces[mover].type
          /\ pieces'[mover].color = pieces[mover].color
          /\ Len(move_history') = Len(move_history) + 1
          /\ SubSeq(move_history', 1, Len(move_history)) = move_history
          /\ current_turn' = Opposite(current_turn)]_vars

\* the latest move captured a piece that had never moved; the captured piece
\* still stores the capture square and has_moved false
C13_Witness ==
  /\ ret = RetTrue
  /\ LastRecord.captured # None
  /\ Coords(LastRecord.captured) = LastRecord.to
  /\ ~pieces[LastRecord.captured].has_moved
  /\ Coords(LastRecord.piece) = LastRecord.to

CapturingRecords ==
  {i \in 1..Len(move_history) : move_history[i].captured # None}
OnGridCount(col, kind) ==
  Cardinality({sq \in Occupied :
                 /\ pieces[board[sq[1]][sq[2]]].color = col
                 /\ pieces[board[sq[1]][sq[2]]].type = kind})

Conservation ==
  /\ OnGrid \cup Captured = PieceIds
  /\ OnGrid \cap Captured = {}
  /\ Cardinality(PieceIds) = 32
  /\ Cardinality(Occupied) = Cardinality(OnGrid)
  /\ Cardinality(CapturingRecords) = Cardinality(Captured)
  /\ Cardinality(Occupied) = 32 - Cardinality(CapturingRecords)
  /\ \A p \in PieceIds :
       /\ pieces[p].type = SetupPieces[p].type
       /\ pieces[p].color = SetupPieces[p].color
  /\ \A col \in Color : OnGridCount(col, KING) <= 1

\* C14: the pieces on the grid together with the captured entries of the
\* history are exactly the 32 pieces of the setup, each once; the number of
\* pieces on the grid is 32 minus the number of records with a captured
\* piece; no piece changes kind or colour; the on-grid count of a (colour,
\* kind) never increases and each colour has at most one King on the grid.
\* (A step that changes neither the grid nor a piece leaves the counts equal.)
C14_PieceConservation ==
  /\ []Conservation
  /\ [][(board' # board \/ pieces' # pieces) =>
          \A col \in Color, kind \in PieceType :
            OnGridCount(col, kind)' <= OnGridCount(col, kind)]_vars

\* three captures in three moves, a King among them
C14_Witness ==
  /\ Cardinality(CapturingRecords) = 3
  /\ Cardinality(Occupied) = 29
  /\ \E col \in Color : OnGridCount(col, KING) = 0

EarlierMoves(i) ==
  {j \in 1..(i - 1) : move_history[j].piece = move_history[i].piece}
MovesOf(p) == {i \in 1..Len(move_history) : move_history[i].piece = p}
Latest(S) == CHOOSE i \in S : \A j \in S : j <= i
InitialSquare(p) == <<SetupPieces[p].row, SetupPieces[p].col>>

\* C15: with sources on the grid, every record starts where the latest
\* earlier record of the same piece ended, or on the piece's initial square;
\* a moved piece on the grid stores the destination of its latest record; a
\* piece captured in a record is never the mover of a later record.
C15_LogConsistent ==
  /\ \A i \in 1..Len(move_history) :
       move_history[i].from =
         (IF EarlierMoves(i) = {}
          THEN InitialSquare(move_history[i].piece)
          ELSE move_history[Latest(EarlierMoves(i))].to)
  /\ \A p \in OnGrid :
       MovesOf(p) # {} => move_history[Latest(MovesOf(p))].to = Coords(p)
  /\ \A i \in CapturingRecords :
       \A j \in (i + 1)..Len(move_history) :
         move_history[j].piece # move_history[i].captured

\* one piece moved twice, and a capture was followed by a later move
C15_Witness ==
  /\ \E i \in 1..Len(move_history) : EarlierMoves(i) # {}
  /\ \E i \in CapturingRecords : i < Len(move_history)

Moved == {p \in PieceIds : pieces[p].has_moved}

\* C18: has_moved is false for every piece at setup, never returns to false,
\* and is true exactly for the pieces that are the mover of some record; a
\* piece on the grid with has_moved false stands on its initial square.
C18_HasMovedMatchesLog ==
  /\ Moved = {}
  /\ [](/\ \A p \in PieceIds : pieces[p].has_moved <=> MovesOf(p) # {}
        /\ \A p \in OnGrid \ Moved :
             board[InitialSquare(p)[1]][InitialSquare(p)[2]] = p)
  /\ [][\A p \in PieceIds : pieces[p].has_moved => pieces'[p].has_moved]_vars

\* three moves by two pieces, and a piece captured before it ever moved
C18_Witness ==
  /\ Len(move_history) = 3
  /\ Cardinality(Moved) = 2
  /\ \E p \in Captured : ~pieces[p].has_moved

\* the square a click event falls on
ClickRow(e) == e[2] \div SQUARE_SIZE
ClickCol(e) == e[1] \div SQUARE_SIZE
ClickInside(e) == ClickRow(e) \in Rows /\ ClickCol(e) \in Cols

SelectionValid ==
  selected_piece # None =>
    /\ selected_piece \in OnGrid
    /\ board[pieces[selected_piece].row][pieces[selected_piece].col]
         = selected_piece
    /\ pieces[selected_piece].color = current_turn

ClickStep ==
  op' = OpClick =>
    /\ ~ClickInside(event') =>
         UNCHANGED <<boardvars, callvars, selected_piece, status_label,
                     drawn_pieces>>
    /\ (ClickInside(event') /\ selected_piece = None) =>
         UNCHANGED <<boardvars, callvars>>
    /\ (ClickInside(event') /\ selected_piece # None) =>
         /\ selected_piece' = None
         /\ call' = <<pieces[selected_piece].row, pieces[selected_piece].col,
                      ClickRow(event'), ClickCol(event')>>
         /\ call'[1] \in Rows /\ call'[2] \in Cols
         /\ call'[3] \in Rows /\ call'[4] \in Cols
         /\ board[call'[1]][call'[2]] = selected_piece
         /\ pieces[selected_piece].color = current_turn
         /\ ret' \in {RetTrue, RetFalse}
         /\ ret' = RetFalse =>
              /\ board[call'[3]][call'[4]] # None
              /\ pieces[board[call'[3]][call'[4]]].color
                   = pieces[selected_piece].color
         /\ ret' = RetFalse => UNCHANGED boardvars

\* C16: a set selected_piece is a piece on the grid at its stored (row, col)
\* with the colour of current_turn; so every move_piece call of the handler
\* has source and destination on the grid, a non-empty source and a mover of
\* the side to move, and fails only on a destination held by the mover's
\* colour.  A click on the board while a piece is selected clears the
\* selection whether or not the move succeeded; a click outside the board
\* changes nothing.
C16_ClickProtocol ==
  /\ []SelectionValid
  /\ [][ClickStep]_vars

\* after one move, the handler called move_piece for a selected piece, the
\* call was rejected and the selection is cleared
C16_Witness ==
  /\ op = OpClick
  /\ ClickInside(event)
  /\ Len(move_history) = 1
  /\ ret = RetFalse
  /\ call = <<0, 4, 0, 1>>
  /\ selected_piece = None

\* C17: the status label names the side to move: "White's Turn" exactly when
\* current_turn is WHITE and "Black's Turn" exactly when it is BLACK.
C17_LabelNamesTurn ==
  /\ status_label = "White's Turn" <=> current_turn = WHITE
  /\ status_label = "Black's Turn" <=> current_turn = BLACK

\* two moves were made by clicks; the label is back to "White's Turn"
C17_Witness ==
  /\ op = OpClick
  /\ Len(move_history) = 2
  /\ ret = RetTrue
  /\ status_label = "White's Turn"
====
